---- MODULE Spec2Model ----
(***************************************************************************)
(* Model of the funding-rate arbitrage tool (mkzung/fundarb):              *)
(*   - symbol normalisation   (strategies/funding_rate_arbitrage.py,       *)
(*                              orderly/funding_rate.py,                   *)
(*                              backpack/funding_rate.py)                  *)
(*   - rate aggregation and ranking (strategies/funding_rate_arbitrage.py) *)
(*   - two-leg execution      (main.py, hyperliq/order.py,                 *)
(*                              orderly/order.py)                          *)
(*                                                                         *)
(* Strings are modelled as sequences of tokens.  A token is either one of  *)
(* the single characters "_", "-", " " or an alphanumeric word; the words  *)
(* are chosen so that no prefix/suffix pattern of the code can match       *)
(* across a token boundary, hence the token-level startswith / endswith /  *)
(* strip / replace below coincide with Python's character-level ones.      *)
(***************************************************************************)
EXTENDS Integers, Sequences, FiniteSets, TLC

VARIABLES
    \* ---- symbol normalisation (NormSpec) ----
    raw,             \* the raw symbol handed to the normalisers
    npc,             \* position in the normalisation pipeline
    agg1, agg2,      \* FundingRateArbitrage._normalize_symbol applied once / twice
    ord1, ord2,      \* OrderlyFundingRates._normalize_symbol applied once / twice
    \* ---- aggregation and ranking (RankSpec) ----
    rpc,             \* position in analyze_funding_rate_arbitrage
    dex_rates,       \* FundingRateArbitrage.dex_rates: ordered dict dex -> ordered dict
    added,           \* how many entries of dex_rates_list have been handed to add_dex_rates
    compiled_rates,  \* result of compile_rates()
    df,              \* result of create_rates_table()
    option,          \* the option analyze_funding_rate_arbitrage was called with
    shown,           \* the rows the display function printed
    response,        \* the HTTP response the fetcher that ran last got
    fetched,         \* the (dex, rates) pairs of dex_rates_list built so far
    fetch_log,       \* the error lines the fetchers logged
    api_calls,       \* ApiSpec: the calls made on one FundingRateArbitrage, in order
    \* ---- two-leg execution (Spec) ----
    pc,              \* position of the main loop / execute_funding_rate_arbitrage
    symbol, short_on_dex, long_on_dex, order_quantity,   \* arguments of execute
    calls,           \* create_order invocations of the current execution, in order
    requests,        \* venue requests (HTTP / SDK) of the current execution, in order
    inflight,        \* legs whose create_order call has not returned yet
    venue,           \* per leg: what the venue did with the order
    leg_ret,         \* per leg: what create_order returned
    ret,             \* what execute_funding_rate_arbitrage returned
    state,           \* ExecutionResult.state of the spec, by return position
    printed,         \* lines printed during the current execution
    runs,            \* number of Execute-Strategy menu passes so far
    answered,        \* what the operator answered at the prompts of the current pass
    \* ---- start-up (StartSpec) ----
    env,             \* the process environment (os.getenv)
    IS_MAINNET,      \* main.py 16
    spc,             \* position in the start-up code of __main__
    orderly_base_url, orderly_chain_id, orderly_secret_env,   \* main.py 269-282
    hl_base_url,     \* main.py 299
    start_printed,   \* lines printed during start-up
    \* ---- closing a position (CloseSpec) ----
    cpc,             \* position in the Close-positions branch of the main loop
    close_on_dex,    \* main.py 377
    close_symbol,    \* main.py 383
    position,        \* what the venue reported about the position in the symbol
    close_ans,       \* what the venue answered to the other requests of the close
    close_calls,     \* create_market_order invocations of the close, in order
    close_requests,  \* venue requests of the close, in order
    close_venue,     \* what the venue did with the closing order
    close_success,   \* main.py 385: what market_close_an_asset returned
    close_printed,   \* lines printed during the close
    closes,          \* number of Close-positions menu passes so far
    \* ---- row key by venue path (PathSpec) ----
    kpc,             \* position in the loop over the venue paths
    raw_symbol,      \* the symbol as a venue's API spells it
    row_key          \* per path: the key of the row the symbol's rate lands in

normVars == <<raw, npc, agg1, agg2, ord1, ord2>>
fetchVars == <<response, fetched, fetch_log, api_calls>>
rankVars == <<rpc, dex_rates, added, compiled_rates, df, option, shown, fetchVars>>
execVars == <<pc, symbol, short_on_dex, long_on_dex, order_quantity, calls,
              requests, inflight, venue, leg_ret, ret, state, printed, runs,
              answered>>
startVars == <<env, IS_MAINNET, spc, orderly_base_url, orderly_chain_id,
               orderly_secret_env, hl_base_url, start_printed>>
closeVars == <<cpc, close_on_dex, close_symbol, position, close_ans, close_calls, close_requests,
               close_venue, close_success, close_printed, closes>>
pathVars == <<kpc, raw_symbol, row_key>>
sessVars == <<startVars, closeVars, pathVars>>
vars == <<normVars, rankVars, execVars, sessVars>>

(***************************************************************************)
(* Strings as token sequences                                              *)
(***************************************************************************)

\* Longest raw symbol enumerated (BTC_USDC_PERP and PERP_BTC_USDC have 5 tokens).
MaxSymLen == 5

Tokens == {"BTC", "btc", "PERP", "USDC", "USDT", "_", "-", " "}

\* Python's None, kept apart from the empty string <<>>.
None == << "<None>" >>

\* str.upper(), token by token
UpperTok(t) == IF t = "btc" THEN "BTC" ELSE t
upper(s) == [i \in DOMAIN s |-> UpperTok(s[i])]

startswith(s, p) == Len(s) >= Len(p) /\ SubSeq(s, 1, Len(p)) = p
endswith(s, p) == Len(s) >= Len(p) /\ SubSeq(s, Len(s) - Len(p) + 1, Len(s)) = p
DropFirst(s, n) == SubSeq(s, n + 1, Len(s))
DropLast(s, n) == SubSeq(s, 1, Len(s) - n)

\* str.strip(chars): remove leading and trailing characters that are in chars
RECURSIVE lstrip(_, _)
lstrip(s, chars) ==
    IF s # <<>> /\ Head(s) \in chars THEN lstrip(Tail(s), chars) ELSE s
RECURSIVE rstrip(_, _)
rstrip(s, chars) ==
    IF s # <<>> /\ s[Len(s)] \in chars THEN rstrip(DropLast(s, 1), chars) ELSE s
strip(s, chars) == rstrip(lstrip(s, chars), chars)

\* str.replace(old, ""): remove every non-overlapping occurrence, left to right
RECURSIVE remove_all(_, _)
remove_all(s, old) ==
    IF s = <<>> THEN <<>>
    ELSE IF startswith(s, old) THEN remove_all(DropFirst(s, Len(old)), old)
    ELSE <<Head(s)>> \o remove_all(Tail(s), old)

\* Python truthiness of an Optional[str]
Falsy(s) == s = None \/ s = <<>>

PERP_prefix == <<"PERP", "_">>
QuoteSuffixes == << <<"_", "USDC">>, <<"_", "USDT">>, <<"-", "USDC">>, <<"-", "USDT">> >>
PerpSuffixes == << <<"-", "PERP">>, <<"_", "PERP">> >>

\* for suffix in suffixes: if s.endswith(suffix): s = s[:-len(suffix)]; break
StripFirstSuffix(s, suffixes) ==
    IF \E i \in DOMAIN suffixes : endswith(s, suffixes[i])
    THEN LET i == CHOOSE j \in DOMAIN suffixes :
                      /\ endswith(s, suffixes[j])
                      /\ \A k \in 1..(j - 1) : ~endswith(s, suffixes[k])
         IN DropLast(s, Len(suffixes[i]))
    ELSE s

StripPerpPrefix(s) == IF startswith(s, PERP_prefix) THEN DropFirst(s, Len(PERP_prefix)) ELSE s

\* FundingRateArbitrage._normalize_symbol
FundingRateArbitrage_normalize_symbol(sym) ==
    IF Falsy(sym) THEN sym
    ELSE StripFirstSuffix(StripFirstSuffix(StripPerpPrefix(upper(sym)), QuoteSuffixes),
                          PerpSuffixes)

\* OrderlyFundingRates._normalize_symbol
OrderlyFundingRates_normalize_symbol(sym) ==
    IF Falsy(sym) THEN None
    ELSE LET s == strip(StripFirstSuffix(StripFirstSuffix(StripPerpPrefix(upper(sym)),
                                                          QuoteSuffixes),
                                         PerpSuffixes),
                        {"_", "-", " "})
         IN IF s = <<>> THEN None ELSE s

(***************************************************************************)
(* Two-leg execution: main.py, hyperliq/order.py, orderly/order.py         *)
(***************************************************************************)

\* Execute-Strategy menu passes per behaviour
MaxRuns == 2
\* Largest order quantity the operator types in
MaxQty == 2

\* main.py: dex_options
dex_options == <<"orderly", "hyperliquid">>
NoDex == "<None>"

\* Symbols the operator may type, and the assets Hyperliquid lists
\* (meta_and_asset_ctxs()[1]["universe"]).
TypedSymbols == {"btc", "BTC", "XYZ"}
universe == {"BTC"}

\* prompt_user returns the typed integer, or -1 when the input is no integer
Choices == -2..3
\* float(input(...)): a number, or ValueError
QtyInputs == {[valid |-> TRUE, value |-> q] : q \in 1..MaxQty}
                 \cup {[valid |-> FALSE, value |-> 0]}

\* Python list indexing lst[i] (0-based, negative indices count from the end);
\* NoDex stands for IndexError.
PyIndex(lst, i) ==
    IF 0 <= i /\ i < Len(lst) THEN lst[i + 1]
    ELSE IF -Len(lst) <= i /\ i < 0 THEN lst[Len(lst) + i + 1]
    ELSE NoDex

\* main.py: get_dex_from_dex_options
get_dex_from_dex_options(choice) == PyIndex(dex_options, choice - 1)

\* [d for d in local_dex_options if d != short_on_dex]
remaining_dex(short) == SelectSeq(dex_options, LAMBDA d : d # short)

\* remaining_dex[long_choice - 1] if 1 <= long_choice <= len(remaining_dex) else None
long_dex_of(short, long_choice) ==
    IF 1 <= long_choice /\ long_choice <= Len(remaining_dex(short))
    THEN remaining_dex(short)[long_choice]
    ELSE NoDex

\* What the venues can answer.  order: the answer to the order request;
\* mark: the answer to Orderly's public mark-price request; meta: the answer to
\* Hyperliquid's meta_and_asset_ctxs request.
OrderlyAnswers ==
    [order : {"success", "rejected", "transport_error"},
     mark  : {"ok", "no_data", "transport_error"},
     meta  : {"n/a"}]
HyperliquidAnswers ==
    [order : {"ok_filled", "ok_error", "err", "transport_error"},
     mark  : {"n/a"},
     meta  : {"ok", "transport_error"}]
NoAnswer == [order |-> "n/a", mark |-> "n/a", meta |-> "n/a"]
Answers(dex) ==
    IF dex = "orderly" THEN OrderlyAnswers
    ELSE IF dex = "hyperliquid" THEN HyperliquidAnswers
    ELSE {NoAnswer}

Req(dex, kind) == [dex |-> dex, kind |-> kind]
Line(text, dex) == [text |-> text, dex |-> dex]

\* orderly/order.py: Order.create_market_order with Order._send_request.
\* value.type is "dict" for a decoded JSON object.
Order_create_market_order(sym, quantity, side, ans) ==
    IF ans.order = "transport_error"
    THEN [raised |-> TRUE, value |-> [type |-> "none", success |-> FALSE],
          venue |-> "unreached", requests |-> <<Req("orderly", "order")>>,
          printed |-> <<>>]
    ELSE [raised |-> FALSE,
          value |-> [type |-> "dict", success |-> (ans.order = "success")],
          venue |-> IF ans.order = "success" THEN "accepted" ELSE "declined",
          requests |-> <<Req("orderly", "order")>>,
          printed |-> <<>>]

\* hyperliq/order.py: HyperLiquidOrder.create_market_order.
\* Returns the venue's dict, except that a per-order status without "filled"
\* makes it return order_result["status"], a str (line 85).
\* hyperliq_utils.get_market_open_order and check_order_leverage (lines 64-72)
\* build and vet the order locally; their source is not part of the repository
\* files modelled here and they are taken to return normally.
HyperLiquidOrder_create_market_order(sym, sz_usd, side, ans) ==
    IF ans.meta = "transport_error"
    THEN [raised |-> TRUE, value |-> [type |-> "none", status |-> ""],
          venue |-> "unreached", requests |-> <<Req("hyperliquid", "meta")>>,
          printed |-> <<>>]
    ELSE IF sym \notin universe
    THEN [raised |-> TRUE, value |-> [type |-> "none", status |-> ""],
          venue |-> "unreached", requests |-> <<Req("hyperliquid", "meta")>>,
          printed |-> <<>>]
    ELSE IF ans.order = "transport_error"
    THEN [raised |-> TRUE, value |-> [type |-> "none", status |-> ""],
          venue |-> "unreached",
          requests |-> <<Req("hyperliquid", "meta"), Req("hyperliquid", "order")>>,
          printed |-> <<>>]
    ELSE IF ans.order = "err"
    THEN [raised |-> FALSE, value |-> [type |-> "dict", status |-> "err"],
          venue |-> "declined",
          requests |-> <<Req("hyperliquid", "meta"), Req("hyperliquid", "order")>>,
          printed |-> <<>>]
    ELSE IF ans.order = "ok_filled"
    THEN [raised |-> FALSE, value |-> [type |-> "dict", status |-> "ok"],
          venue |-> "accepted",
          requests |-> <<Req("hyperliquid", "meta"), Req("hyperliquid", "order")>>,
          printed |-> <<Line("Hyperliquid Order #oid filled", "hyperliquid")>>]
    ELSE [raised |-> FALSE, value |-> [type |-> "str", status |-> "ok"],
          venue |-> "declined",
          requests |-> <<Req("hyperliquid", "meta"), Req("hyperliquid", "order")>>,
          printed |-> <<Line("Error: per-order error", "hyperliquid")>>]

Raised(r) == [ret |-> "raised", venue |-> r.venue, requests |-> r.requests,
              printed |-> r.printed]

\* main.py: create_order.  ret is "True", "False" or "raised" (an exception leaves
\* the function).
create_order(dex, sym, quantity, side, ans) ==
    IF dex = "orderly" THEN
        LET r == Order_create_market_order(sym, quantity, side, ans)
            success == r.value.success
            reqs == r.requests \o <<Req("orderly", "mark_price")>>
        IN  IF r.raised THEN Raised(r)
            \* requests.request("GET", url) / json.loads raise
            ELSE IF ans.mark = "transport_error"
            THEN [ret |-> "raised", venue |-> r.venue, requests |-> reqs,
                  printed |-> <<>>]
            \* response['data']['mark_price'] is read only when success
            ELSE IF success /\ ans.mark = "no_data"
            THEN [ret |-> "raised", venue |-> r.venue, requests |-> reqs,
                  printed |-> <<>>]
            ELSE [ret |-> IF success THEN "True" ELSE "False",
                  venue |-> r.venue, requests |-> reqs,
                  printed |-> IF success
                              THEN <<Line("Orderly order #oid filled", "orderly")>>
                              ELSE <<>>]
    ELSE IF dex = "hyperliquid" THEN
        LET r == HyperLiquidOrder_create_market_order(sym, quantity, side, ans)
        IN  IF r.raised THEN Raised(r)
            \* order_result.get("status") on a str: AttributeError
            ELSE IF r.value.type # "dict" THEN Raised(r)
            ELSE IF r.value.status = "ok"
            THEN [ret |-> "True", venue |-> r.venue, requests |-> r.requests,
                  printed |-> r.printed
                              \o <<Line("Hyperliquid order #oid filled", "hyperliquid")>>]
            ELSE [ret |-> "False", venue |-> r.venue, requests |-> r.requests,
                  printed |-> r.printed]
    ELSE [ret |-> "False", venue |-> "none", requests |-> <<>>,
          printed |-> <<Line("Unsupported DEX", dex)>>]

Legs == {"short", "long"}

\* The states the other pipelines rest in while one specification runs.
\* os.getenv of a variable that is not set
Unset == [set |-> FALSE, value |-> 0]
StartIdle ==
    /\ env = [RUN_MAINNET |-> Unset, names |-> {}]
    /\ IS_MAINNET = FALSE /\ spc = "idle"
    /\ orderly_base_url = "" /\ orderly_chain_id = "" /\ orderly_secret_env = ""
    /\ hl_base_url = "" /\ start_printed = <<>>
\* no position has been asked for
NoPosition == [answer |-> "n/a", qty |-> 0]
CloseIdle ==
    /\ cpc = "idle" /\ close_on_dex = "<None>" /\ close_symbol = ""
    /\ position = NoPosition /\ close_ans = NoAnswer
    /\ close_calls = <<>> /\ close_requests = <<>> /\ close_venue = "none"
    /\ close_success = "none" /\ close_printed = <<>> /\ closes = 0
\* the three ways a symbol reaches add_dex_rates
Paths == {"orderly", "backpack", "direct"}
PathIdle == kpc = "idle" /\ raw_symbol = <<>> /\ row_key = [p \in Paths |-> None]
SessIdle == StartIdle /\ CloseIdle /\ PathIdle
NormIdle ==
    /\ raw = <<>> /\ npc = "idle"
    /\ agg1 = None /\ agg2 = None /\ ord1 = None /\ ord2 = None
\* no fetcher has run
NoResponse == [kind |-> "<none>", items |-> <<>>]
FetchIdle ==
    response = NoResponse /\ fetched = <<>> /\ fetch_log = <<>> /\ api_calls = <<>>
RankIdle ==
    /\ rpc = "idle" /\ dex_rates = <<>> /\ added = 0
    /\ compiled_rates = [columns |-> <<>>, rows |-> <<>>]
    /\ df = [columns |-> <<>>, rows |-> <<>>]
    /\ option = 0 /\ shown = <<>>
    /\ FetchIdle

\* no prompt of the Execute Strategy branch has been answered
NotAsked == [prompts |-> 0, short_choice |-> 0, long_choice |-> 0,
             qty |-> [valid |-> FALSE, value |-> 0], confirm_choice |-> 0]

ExecInit ==
    /\ pc = "menu"
    /\ symbol = "" /\ short_on_dex = NoDex /\ long_on_dex = NoDex
    /\ order_quantity = 0
    /\ calls = <<>> /\ requests = <<>> /\ inflight = {}
    /\ venue = [l \in Legs |-> "none"]
    /\ leg_ret = [l \in Legs |-> "none"]
    /\ ret = "none" /\ state = "Pending"
    /\ printed = <<>> /\ runs = 0
    /\ answered = NotAsked

OrderCall(dex, side) ==
    [dex |-> dex, symbol |-> symbol, quantity |-> order_quantity, side |-> side]

\* main.py 457-535: the Execute Strategy branch of the menu, up to the call of
\* execute_funding_rate_arbitrage.  Every abort leaves through `break`.
ExecuteStrategy(typed, short_choice, long_choice, qty, confirm_choice) ==
    LET short == get_dex_from_dex_options(short_choice)
        long  == long_dex_of(short, long_choice)
        go    == /\ short # NoDex
                 /\ long # NoDex
                 /\ qty.valid
                 /\ confirm_choice = 1
    IN  /\ pc = "menu"
        /\ runs < MaxRuns
        /\ runs' = runs + 1
        \* the prompts that were reached, with the answers given
        /\ answered' =
               IF short = NoDex
               THEN [NotAsked EXCEPT !.prompts = 1, !.short_choice = short_choice]
               ELSE IF long = NoDex
               THEN [NotAsked EXCEPT !.prompts = 2, !.short_choice = short_choice,
                                     !.long_choice = long_choice]
               ELSE IF ~qty.valid
               THEN [NotAsked EXCEPT !.prompts = 3, !.short_choice = short_choice,
                                     !.long_choice = long_choice]
               ELSE [prompts |-> 4, short_choice |-> short_choice,
                     long_choice |-> long_choice, qty |-> qty,
                     confirm_choice |-> confirm_choice]
        /\ calls' = <<>> /\ requests' = <<>> /\ inflight' = {}
        /\ venue' = [l \in Legs |-> "none"]
        /\ leg_ret' = [l \in Legs |-> "none"]
        /\ ret' = "none" /\ state' = "Pending"
        /\ IF go
           THEN /\ symbol' = UpperTok(typed)
                /\ short_on_dex' = short
                /\ long_on_dex' = long
                /\ order_quantity' = qty.value
                /\ printed' = <<Line("Okay! Let's arbitrage!", "")>>
                /\ pc' = "short_call"
           ELSE /\ symbol' = "" /\ short_on_dex' = NoDex /\ long_on_dex' = NoDex
                /\ order_quantity' = 0
                /\ printed' = <<Line("Aborting!", "")>>
                /\ pc' = "menu"
        /\ UNCHANGED <<normVars, rankVars, sessVars>>

\* main.py 192: create_order(short_on_dex, symbol, order_quantity, Side.SELL) is entered
CallShort ==
    /\ pc = "short_call"
    /\ calls' = Append(calls, OrderCall(short_on_dex, "SELL"))
    /\ inflight' = inflight \cup {"short"}
    /\ pc' = "short_wait"
    /\ UNCHANGED <<answered, symbol, short_on_dex, long_on_dex, order_quantity, requests,
                   venue, leg_ret, ret, state, printed, runs, normVars, rankVars, sessVars>>

\* Where execute_funding_rate_arbitrage goes once the short leg's create_order is
\* over (lines 192-194): on, out with False, or out with the exception.
AfterShort_ignoring_result(r) ==
    IF r = "raised" THEN "crashed" ELSE "long_call"
AfterShort(r) ==
    IF r = "raised" THEN "crashed"
    ELSE IF r = "True" THEN "long_call"
    ELSE "done"

\* main.py 192-194: the short leg's create_order returns (or raises)
ShortReturns(ans) ==
    LET r == create_order(short_on_dex, symbol, order_quantity, "SELL", ans)
    IN  /\ pc = "short_wait"
        /\ inflight' = inflight \ {"short"}
        /\ requests' = requests \o r.requests
        /\ venue' = [venue EXCEPT !["short"] = r.venue]
        /\ leg_ret' = [leg_ret EXCEPT !["short"] = r.ret]
        /\ pc' = AfterShort(r.ret)
        /\ IF r.ret = "raised"
           THEN /\ ret' = "raised" /\ state' = state
                /\ printed' = printed \o r.printed
           ELSE IF r.ret = "True"
           THEN /\ ret' = ret /\ state' = "ShortFilled"
                /\ printed' = printed \o r.printed
           ELSE /\ ret' = "False" /\ state' = "ShortFailed"
                /\ printed' = printed \o r.printed
                       \o <<Line("order failed, aborting strategy", short_on_dex)>>
        /\ UNCHANGED <<answered, symbol, short_on_dex, long_on_dex, order_quantity, calls,
                       runs, normVars, rankVars, sessVars>>

\* main.py 197: create_order(long_on_dex, symbol, order_quantity, Side.BUY) is entered
CallLong ==
    /\ pc = "long_call"
    /\ calls' = Append(calls, OrderCall(long_on_dex, "BUY"))
    /\ inflight' = inflight \cup {"long"}
    /\ pc' = "long_wait"
    /\ UNCHANGED <<answered, symbol, short_on_dex, long_on_dex, order_quantity, requests,
                   venue, leg_ret, ret, state, printed, runs, normVars, rankVars, sessVars>>

\* main.py 197-202: the long leg's create_order returns (or raises)
LongReturns(ans) ==
    LET r == create_order(long_on_dex, symbol, order_quantity, "BUY", ans)
    IN  /\ pc = "long_wait"
        /\ inflight' = inflight \ {"long"}
        /\ requests' = requests \o r.requests
        /\ venue' = [venue EXCEPT !["long"] = r.venue]
        /\ leg_ret' = [leg_ret EXCEPT !["long"] = r.ret]
        /\ IF r.ret = "raised"
           THEN /\ ret' = "raised" /\ state' = state /\ pc' = "crashed"
                /\ printed' = printed \o r.printed
           ELSE IF r.ret = "True"
           THEN /\ ret' = "True" /\ state' = "BothFilled" /\ pc' = "done"
                /\ printed' = printed \o r.printed
           ELSE /\ ret' = "False" /\ state' = "LongFailedAfterShort" /\ pc' = "done"
                /\ printed' = printed \o r.printed
                       \o <<Line("order failed, aborting strategy", long_on_dex),
                            Line("Close the short position manually or via menu!", "")>>
        /\ UNCHANGED <<answered, symbol, short_on_dex, long_on_dex, order_quantity, calls,
                       runs, normVars, rankVars, sessVars>>

\* main.py 526-535: execute returned; congratulate on True, loop to the menu
BackToMenu ==
    /\ pc = "done"
    /\ pc' = "menu"
    /\ printed' = IF ret = "True"
                  THEN Append(printed, Line("Congrats!", ""))
                  ELSE printed
    /\ UNCHANGED <<answered, symbol, short_on_dex, long_on_dex, order_quantity, calls,
                   requests, inflight, venue, leg_ret, ret, state, runs,
                   normVars, rankVars, sessVars>>

Init == ExecInit /\ NormIdle /\ RankIdle /\ SessIdle

Next ==
    \/ \E typed \in TypedSymbols, sc \in Choices, lc \in Choices,
          qty \in QtyInputs, cc \in Choices :
            ExecuteStrategy(typed, sc, lc, qty, cc)
    \/ CallShort
    \/ \E ans \in Answers(short_on_dex) : ShortReturns(ans)
    \/ CallLong
    \/ \E ans \in Answers(long_on_dex) : LongReturns(ans)
    \/ BackToMenu

Spec == Init /\ [][Next]_vars

(***************************************************************************)
(* Properties of the two-leg execution (checked under Spec)                *)
(***************************************************************************)

\* execute_funding_rate_arbitrage is over: it returned or an exception left it
Over == ret \in {"True", "False", "raised"}
\* the venue did not take the leg's order (it declined it, or the adapter failed
\* before the venue answered)
LegFailed(leg) == venue[leg] \in {"declined", "unreached"}
CallsTo(dex) == {i \in DOMAIN calls : calls[i].dex = dex}
HasLine(text, dex) ==
    \E i \in DOMAIN printed : printed[i].text = text /\ printed[i].dex = dex

\* C1: whenever the short-leg SELL order fails, the execution ends in ShortFailed
\* (execute returns False) and the long venue receives no order call.
C1_ShortFailureEndsShortFailed ==
    (Over /\ LegFailed("short"))
        => /\ state = "ShortFailed"
           /\ ret = "False"
           /\ CallsTo(long_on_dex) = {}

\* C2: when the short leg succeeds and the long-leg BUY fails, the execution ends
\* in LongFailedAfterShort and the coordinator has called each venue exactly once:
\* nothing follows the failed long order.
C2_LongFailureLeavesShort ==
    (Over /\ venue["short"] = "accepted" /\ LegFailed("long"))
        => /\ state = "LongFailedAfterShort"
           /\ ret = "False"
           /\ calls = <<OrderCall(short_on_dex, "SELL"), OrderCall(long_on_dex, "BUY")>>

\* C3: execute reports BothFilled (returns True) exactly when both venues
\* accepted their order, short first; then an order id was shown for both legs.
C3_BothFilledIffBothAccepted ==
    Over =>
        /\ (state = "BothFilled" /\ ret = "True")
               <=> (venue["short"] = "accepted" /\ venue["long"] = "accepted")
        /\ state = "BothFilled" =>
               /\ \E i \in DOMAIN printed :
                      /\ printed[i].dex = short_on_dex
                      /\ printed[i].text \in {"Orderly order #oid filled",
                                              "Hyperliquid order #oid filled"}
               /\ \E i \in DOMAIN printed :
                      /\ printed[i].dex = long_on_dex
                      /\ printed[i].text \in {"Orderly order #oid filled",
                                              "Hyperliquid order #oid filled"}

\* C4: the long-leg BUY is requested only after the short-leg SELL has returned
\* success; the two requests are never in flight together; each leg is requested
\* at most once, with the symbol and quantity execute was given.
C4_LegsSequential ==
    /\ Cardinality(inflight) <= 1
    /\ Len(calls) <= 2
    /\ ("long" \in inflight \/ Len(calls) = 2)
           => (leg_ret["short"] = "True" /\ "short" \notin inflight)
    /\ Len(calls) >= 1 =>
           calls[1] = [dex |-> short_on_dex, symbol |-> symbol,
                       quantity |-> order_quantity, side |-> "SELL"]
    /\ Len(calls) = 2 =>
           calls[2] = [dex |-> long_on_dex, symbol |-> symbol,
                       quantity |-> order_quantity, side |-> "BUY"]
\* the long request is in flight
C4_LongInFlight == "long" \in inflight /\ Len(calls) = 2

\* C5: an adapter-level error (transport failure, symbol not in the venue's
\* universe) ends the execution like a rejection: ShortFailed on the short leg,
\* LongFailedAfterShort on the long leg; execute always returns one of the three
\* terminal outcomes and never lets the error through.
C5_AdapterErrorIsTerminalOutcome ==
    Over =>
        /\ ret # "raised"
        /\ state \in {"BothFilled", "ShortFailed", "LongFailedAfterShort"}
        /\ venue["short"] = "unreached" => state = "ShortFailed"
        /\ venue["long"] = "unreached" => state = "LongFailedAfterShort"

\* C6: an order the venue declines reaches the coordinator as a failed leg:
\* create_order returns False, never True and never an exception.
C6_DeclinedOrderIsFalse ==
    \A leg \in Legs :
        (leg_ret[leg] # "none" /\ venue[leg] = "declined") => leg_ret[leg] = "False"

\* C7: every execution that ends in failure has printed, before it ends, a report
\* naming the venue of the failed leg; and whenever the short leg was filled and
\* the execution did not complete, the operator has been told to close the short
\* position.
C7_FailureIsReported ==
    (Over /\ ret # "True") =>
        /\ \E i \in DOMAIN printed :
               /\ printed[i].text = "order failed, aborting strategy"
               /\ printed[i].dex = (IF leg_ret["long"] = "none"
                                    THEN short_on_dex ELSE long_on_dex)
        /\ venue["short"] = "accepted" =>
               HasLine("Close the short position manually or via menu!", "")

(***************************************************************************)
(* Symbol normalisation (NormSpec): every raw symbol of up to MaxSymLen     *)
(* tokens is put through both normalisers, twice each.                      *)
(***************************************************************************)

RawSymbols == UNION {[1..n -> Tokens] : n \in 0..MaxSymLen}

NormInit ==
    /\ raw \in RawSymbols
    /\ npc = "raw"
    /\ agg1 = None /\ agg2 = None /\ ord1 = None /\ ord2 = None
    /\ ExecInit /\ RankIdle /\ SessIdle

\* norm_symbol = self._normalize_symbol(symbol)   (add_dex_rates, line 60)
NormalizeAggregator ==
    /\ npc = "raw"
    /\ agg1' = FundingRateArbitrage_normalize_symbol(raw)
    /\ npc' = "agg1"
    /\ UNCHANGED <<raw, agg2, ord1, ord2, rankVars, execVars, sessVars>>

\* the aggregator's normaliser applied to its own result
RenormalizeAggregator ==
    /\ npc = "agg1"
    /\ agg2' = FundingRateArbitrage_normalize_symbol(agg1)
    /\ npc' = "agg2"
    /\ UNCHANGED <<raw, agg1, ord1, ord2, rankVars, execVars, sessVars>>

\* underlying = self._normalize_symbol(symbol_raw)   (orderly/funding_rate.py, line 59)
NormalizeOrderly ==
    /\ npc = "agg2"
    /\ ord1' = OrderlyFundingRates_normalize_symbol(raw)
    /\ npc' = "ord1"
    /\ UNCHANGED <<raw, agg1, agg2, ord2, rankVars, execVars, sessVars>>

\* the Orderly normaliser applied to its own result
RenormalizeOrderly ==
    /\ npc = "ord1"
    /\ ord2' = OrderlyFundingRates_normalize_symbol(ord1)
    /\ npc' = "done"
    /\ UNCHANGED <<raw, agg1, agg2, ord1, rankVars, execVars, sessVars>>

NormNext ==
    \/ NormalizeAggregator
    \/ RenormalizeAggregator
    \/ NormalizeOrderly
    \/ RenormalizeOrderly

NormSpec == NormInit /\ [][NormNext]_vars

\* C8: normalisation is idempotent: for every raw symbol whose normal form is
\* defined, normalising the normal form again returns it unchanged (for the
\* aggregator's normaliser and for the Orderly fetcher's).
C8_NormalizeIdempotent ==
    /\ (npc \in {"agg2", "ord1", "done"} /\ agg1 # None) => agg2 = agg1
    /\ (npc = "done" /\ ord1 # None) => ord2 = ord1

\* The six-step algorithm of the specification (section 4.1), the reference the
\* aggregator's normaliser is compared with in C9.
SixStepNormalize(sym) ==
    LET s1 == upper(strip(sym, {" "}))
        s2 == StripPerpPrefix(s1)
        s3 == StripFirstSuffix(s2, QuoteSuffixes)
        s4 == StripFirstSuffix(s3, PerpSuffixes)
        s5 == strip(s4, {"_", "-", " "})
    IN  IF s1 = <<>> \/ s5 = <<>> THEN None ELSE s5

\* none and the empty string both count as "no symbol"
NoneIfEmpty(s) == IF Falsy(s) THEN None ELSE s

\* C9: for every raw symbol the aggregator's normaliser returns what the ordered
\* six-step algorithm returns, so no result is empty or begins or ends with
\* "_", "-" or a space.
C9_AggregatorIsSixStep ==
    npc # "raw" =>
        /\ NoneIfEmpty(agg1) = SixStepNormalize(raw)
        /\ (~Falsy(agg1)) =>
               /\ Head(agg1) \notin {"_", "-", " "}
               /\ agg1[Len(agg1)] \notin {"_", "-", " "}

(***************************************************************************)
(* Rate aggregation and ranking: strategies/funding_rate_arbitrage.py,      *)
(* driven by main.py: analyze_funding_rate_arbitrage                        *)
(***************************************************************************)

\* Largest funding rate a venue reports (rates are 0..MaxRate, or NaN)
MaxRate == 1
\* Most entries in one venue's fetched rate dict
MaxEntries == 2
\* top_n: int = 3
TopN == 3

\* A float: a number, or NaN.  pandas reads NaN as "missing".
Num(n) == [nan |-> FALSE, v |-> n]
NaN == [nan |-> TRUE, v |-> 0]
Rates == {Num(n) : n \in 0..MaxRate} \cup {NaN}

\* main.py 78-93: dex_rates_list, in order
dex_rates_list == <<"orderly", "hyperliquid", "backpack">>

\* The symbol spellings the fetchers hand over
RawKeys == { <<"BTC">>, <<"ETH">>, <<"BTC", "_", "USDC">> }

\* Python dicts keep insertion order: a dict is a sequence of key/value entries
\* with distinct keys.
Entry(k, v) == [k |-> k, v |-> v]
HasKey(d, k) == \E i \in DOMAIN d : d[i].k = k
Get(d, k) == d[CHOOSE i \in DOMAIN d : d[i].k = k].v
\* d[k] = v: an existing key keeps its position
Put(d, k, v) ==
    IF HasKey(d, k)
    THEN [i \in DOMAIN d |-> IF d[i].k = k THEN Entry(k, v) ELSE d[i]]
    ELSE Append(d, Entry(k, v))

DictsOfLen(n) ==
    {d \in [1..n -> [k : RawKeys, v : Rates]] :
        \A i, j \in 1..n : d[i].k = d[j].k => i = j}
RateDicts == UNION {DictsOfLen(n) : n \in 0..MaxEntries}

\* add_dex_rates, lines 58-64: the loop building `normalized`
RECURSIVE normalized_from(_, _)
normalized_from(rates, acc) ==
    IF rates = <<>> THEN acc
    ELSE LET norm_symbol == FundingRateArbitrage_normalize_symbol(Head(rates).k)
         IN  normalized_from(Tail(rates),
                             IF Falsy(norm_symbol) THEN acc
                             ELSE Put(acc, norm_symbol, Head(rates).v))

add_dex_rates_keeping_empty(dr, dex_name, rates) ==
    Put(dr, dex_name, normalized_from(rates, <<>>))
\* FundingRateArbitrage.add_dex_rates: the new self.dex_rates
add_dex_rates(dr, dex_name, rates) ==
    IF rates = <<>> THEN dr
    ELSE LET normalized == normalized_from(rates, <<>>)
         IN  IF normalized = <<>> THEN dr ELSE Put(dr, dex_name, normalized)

\* A DataFrame: its DEX columns in order, and its rows in index order; a row
\* holds the symbol and one cell per column (NaN where the venue has no rate).
EmptyFrame == [columns |-> <<>>, rows |-> <<>>]
FrameEmpty(f) == f.columns = <<>> \/ f.rows = <<>>
Seq2Set(q) == {q[i] : i \in DOMAIN q}

\* index of pd.concat(frames, axis=1): the union of the keys, by first appearance
RECURSIVE append_new(_, _)
append_new(index, keys) ==
    IF keys = <<>> THEN index
    ELSE append_new(IF Head(keys).k \in Seq2Set(index) THEN index
                    ELSE Append(index, Head(keys).k),
                    Tail(keys))
RECURSIVE union_index(_, _)
union_index(dr, index) ==
    IF dr = <<>> THEN index
    ELSE union_index(Tail(dr), append_new(index, Head(dr).v))

\* FundingRateArbitrage.compile_rates
compile_rates(dr) ==
    IF dr = <<>> THEN EmptyFrame
    ELSE LET cols == [i \in DOMAIN dr |-> dr[i].k]
             index == union_index(dr, <<>>)
         IN  [columns |-> cols,
              rows |-> [i \in DOMAIN index |->
                          [Symbol |-> index[i],
                           rates |-> [c \in Seq2Set(cols) |->
                                         IF HasKey(Get(dr, c), index[i])
                                         THEN Get(Get(dr, c), index[i])
                                         ELSE NaN]]]]

\* self.dex_rates after compile_rates: the method only reads it (lines 76-88;
\* pd.Series(rates) copies the dict)
dex_rates_after_compile_cleared(dr) == <<>>
dex_rates_after_compile(dr) == dr

SetMax(S) == CHOOSE x \in S : \A y \in S : y <= x
SetMin(S) == CHOOSE x \in S : \A y \in S : x <= y
\* df.max(axis=1, skipna=True) / df.min(axis=1, skipna=True) over a row's cells
NonNaN(cells) == {c.v : c \in {x \in cells : ~x.nan}}
row_max(cells) == IF NonNaN(cells) = {} THEN NaN ELSE Num(SetMax(NonNaN(cells)))
row_min_missing_as_zero(cells) == Num(SetMin({IF c.nan THEN 0 ELSE c.v : c \in cells}))
row_min(cells) == IF NonNaN(cells) = {} THEN NaN ELSE Num(SetMin(NonNaN(cells)))
\* float subtraction: NaN if either side is NaN
Sub(a, b) == IF a.nan \/ b.nan THEN NaN ELSE Num(a.v - b.v)
Cells(row) == {row.rates[c] : c \in DOMAIN row.rates}
\* df[dex_cols].notna().sum(axis=1)
non_na_count(row) == Cardinality({c \in DOMAIN row.rates : ~row.rates[c].nan})

\* create_rates_table, lines 110-113: the rows kept are those with a rate from
\* at least two DEX columns
CoverageKept_single_venue(row) == non_na_count(row) >= 1
CoverageKept(row) == non_na_count(row) >= 2

\* FundingRateArbitrage.create_rates_table.  MinRate is taken over the DEX
\* columns and the MaxRate column just added (line 104).
create_rates_table(f) ==
    IF FrameEmpty(f) THEN EmptyFrame
    ELSE LET withStats(row) ==
                 LET mx == row_max(Cells(row))
                     mn == row_min(Cells(row) \cup {mx})
                 IN  [Symbol |-> row.Symbol, rates |-> row.rates,
                      MaxRate |-> mx, MinRate |-> mn, Difference |-> Sub(mx, mn)]
             all == [i \in DOMAIN f.rows |-> withStats(f.rows[i])]
         IN  [columns |-> f.columns, rows |-> SelectSeq(all, CoverageKept)]

\* df.sort_values("Difference", ascending=False).  kind is left at its default,
\* "quicksort", which pandas and numpy document as not stable: the rows come out
\* by descending Difference, and rows with equal Difference in whichever order
\* the numpy build at hand produces.  Every such order is an outcome.  NaN
\* differences never reach the sort (the masks drop them).
sort_values_descending(rows) ==
    LET n == Len(rows)
        descending(p) == \A i \in 1..(n - 1) :
                            rows[p[i]].Difference.v >= rows[p[i + 1]].Difference.v
        orders == {p \in [1..n -> 1..n] :
                      /\ \A i, j \in 1..n : p[i] = p[j] => i = j
                      /\ descending(p)}
    IN  {[i \in 1..n |-> rows[p[i]]] : p \in orders}
\* .head(n)
head_untruncated(rows, n) == rows
head(rows, n) == SubSeq(rows, 1, IF Len(rows) < n THEN Len(rows) ELSE n)

\* (df["Difference"].abs() > 0)
NonZeroDifference_any_difference(row) == ~row.Difference.nan
NonZeroDifference(row) == ~row.Difference.nan /\ row.Difference.v # 0

display_rates_table_top_only(f) == IF FrameEmpty(f) THEN <<>> ELSE head(f.rows, TopN)
\* FundingRateArbitrage.display_rates_table: the rows printed
display_rates_table(f) == IF FrameEmpty(f) THEN <<>> ELSE f.rows

\* the mask of display_top_rates_differences_from_Orderly, lines 167-171
OrderlyMask_without_anchor(row) == non_na_count(row) >= 2 /\ NonZeroDifference(row)
OrderlyMask(row) ==
    /\ ~row.rates["orderly"].nan
    /\ non_na_count(row) >= 2
    /\ NonZeroDifference(row)
\* the mask of display_top_rates_differences_from_all_DEXs, line 212
AllDexMask(row) == non_na_count(row) >= 2 /\ NonZeroDifference(row)

\* FundingRateArbitrage.display_top_rates_differences_from_Orderly: the lists of
\* rows it can print, one per order the sort can leave equal rows in
display_top_rates_differences_from_Orderly(f, top_n) ==
    IF FrameEmpty(f) \/ "orderly" \notin Seq2Set(f.columns) THEN {<<>>}
    ELSE {head(s, top_n) : s \in sort_values_descending(SelectSeq(f.rows, OrderlyMask))}

\* FundingRateArbitrage.display_top_rates_differences_from_all_DEXs: the lists
\* of rows it can print
display_top_rates_differences_from_all_DEXs(f, top_n) ==
    IF FrameEmpty(f) THEN {<<>>}
    ELSE {head(s, top_n) : s \in sort_values_descending(SelectSeq(f.rows, AllDexMask))}

(***************************************************************************)
(* The fetchers of main.py 78-93: orderly/funding_rate.py and               *)
(* backpack/funding_rate.py.  hyperliq/funding_rate.py is not part of the    *)
(* sources at hand; its fetcher is modelled from the venue-adapter contract  *)
(* of the specification.                                                     *)
(***************************************************************************)

\* Most items in the list a venue's endpoint returns
MaxItems == 2

\* The JSON value of a rate field: a numeric string such as "0.0001", the string
\* "nan" (which float() parses), a string float() rejects, or null / no field
RawNum(n) == [kind |-> "number", v |-> n]
RawNaN == [kind |-> "nan", v |-> 0]
RawJunk == [kind |-> "junk", v |-> 0]
RawNone == [kind |-> "none", v |-> 0]
\* float(raw): raises ValueError on a string that is no number
float_raises(x) == x.kind = "junk"
float(x) == IF x.kind = "nan" THEN NaN ELSE Num(x.v)
\* Optional[float]: None
NoRate == [nan |-> TRUE, v |-> -2]

\* An item of the returned list: a JSON object with its symbol field (None when
\* absent) and its rate fields in the order the fetcher tries them, or a JSON
\* value that is no object
Item(sym, rate_fields) == [isdict |-> TRUE, symbol |-> sym, rates |-> rate_fields]
NotADict == [isdict |-> FALSE, symbol |-> None, rates |-> <<RawNone>>]
\* What the HTTP GET ends in: "exception" (no connection, timeout), "status" (an
\* error status), "undecodable" (the body is no JSON), "unexpected" (JSON of
\* another shape), or "rows" (the list of items)
FailureKinds == {"exception", "status", "undecodable", "unexpected"}
Failures == {[kind |-> k, items |-> <<>>] : k \in FailureKinds}
RowsOf(items) ==
    {[kind |-> "rows", items |-> q] : q \in UNION {[1..n -> items] : n \in 0..MaxItems}}

\* OrderlyFundingRates._request_funding_rates
OrderlyFundingRates_request_funding_rates(resp) ==
    LET is_dict(row) == row.isdict
    IN  [raised |-> resp.kind \in {"exception", "status", "undecodable"},
         rows |-> IF resp.kind = "rows" THEN SelectSeq(resp.items, is_dict) ELSE <<>>]

\* OrderlyFundingRates._extract_symbol
OrderlyFundingRates_extract_symbol(row) ==
    IF row.symbol = None THEN None ELSE strip(row.symbol, {" "})

\* OrderlyFundingRates._extract_rate, over the values of the candidate fields in
\* order: the first that float() accepts
RECURSIVE OrderlyFundingRates_extract_rate(_)
OrderlyFundingRates_extract_rate(candidates) ==
    IF candidates = <<>> THEN NoRate
    ELSE IF Head(candidates).kind = "none" \/ float_raises(Head(candidates))
         THEN OrderlyFundingRates_extract_rate(Tail(candidates))
         ELSE float(Head(candidates))

\* get_orderly_funding_rates, lines 53-68: the loop building `result`
RECURSIVE orderly_result(_, _)
orderly_result(raw_items, result) ==
    IF raw_items = <<>> THEN result
    ELSE LET row == Head(raw_items)
             symbol_raw == OrderlyFundingRates_extract_symbol(row)
             underlying == OrderlyFundingRates_normalize_symbol(symbol_raw)
             rate == OrderlyFundingRates_extract_rate(row.rates)
         IN  orderly_result(Tail(raw_items),
                            IF Falsy(symbol_raw) \/ Falsy(underlying) \/ rate = NoRate
                            THEN result
                            ELSE Put(result, underlying, rate))

\* OrderlyFundingRates.get_orderly_funding_rates: the dict returned
get_orderly_funding_rates(resp) ==
    LET req == OrderlyFundingRates_request_funding_rates(resp)
    IN  IF req.raised THEN <<>> ELSE orderly_result(req.rows, <<>>)
\* ... and the error line logged (line 50)
orderly_logged(resp) ==
    IF OrderlyFundingRates_request_funding_rates(resp).raised
    THEN <<"Failed to fetch Orderly funding rates">>
    ELSE <<>>

\* get_backpack_funding_rates, lines 59-77: the loop building `rates`; an item
\* that raises (no object, a rate float() rejects) is skipped by the except
RECURSIVE backpack_rates(_, _)
backpack_rates(data, rates) ==
    IF data = <<>> THEN rates
    ELSE LET item == Head(data)
             fr_str == item.rates[1]
             symbol_key == IF endswith(item.symbol, <<"_", "PERP">>)
                           THEN remove_all(item.symbol, <<"_", "PERP">>)
                           ELSE item.symbol
             skipped == \/ ~item.isdict
                        \/ item.symbol = None \/ fr_str.kind = "none"
                        \/ float_raises(fr_str)
         IN  backpack_rates(Tail(data),
                            IF skipped THEN rates
                            ELSE Put(rates, symbol_key, float(fr_str)))

get_backpack_funding_rates_all_or_nothing(resp) ==
    IF resp.kind # "rows" \/ \E i \in DOMAIN resp.items : ~resp.items[i].isdict
    THEN <<>>
    ELSE backpack_rates(resp.items, <<>>)
\* BackpackFundingRates.get_backpack_funding_rates: the dict returned
get_backpack_funding_rates(resp) ==
    IF resp.kind # "rows" THEN <<>> ELSE backpack_rates(resp.items, <<>>)
\* ... and the error line logged (lines 38, 42, 52, 56)
backpack_logged(resp) ==
    CASE resp.kind = "exception" -> <<"Backpack markPrices request failed">>
      [] resp.kind = "status" -> <<"Backpack markPrices returned non-200 status">>
      [] resp.kind = "undecodable" -> <<"Backpack markPrices JSON decode failed">>
      [] resp.kind = "unexpected" -> <<"Backpack markPrices returned unexpected payload">>
      [] OTHER -> <<>>

\* HyperliquidFundingRates.get_hyperliquid_funding_rates, from the adapter
\* contract: it does not throw, and a failed fetch gives no rates
RECURSIVE hyperliquid_rates(_, _)
hyperliquid_rates(data, rates) ==
    IF data = <<>> THEN rates
    ELSE hyperliquid_rates(Tail(data),
                           IF ~Head(data).isdict \/ Head(data).symbol = None
                              \/ Head(data).rates[1].kind # "number"
                           THEN rates
                           ELSE Put(rates, Head(data).symbol, float(Head(data).rates[1])))
get_hyperliquid_funding_rates(resp) ==
    IF resp.kind # "rows" THEN <<>> ELSE hyperliquid_rates(resp.items, <<>>)

\* The responses enumerated for each venue
PERP_BTC_USDC == <<"PERP", "_", "BTC", "_", "USDC">>
PERP_ETH_USDC == <<"PERP", "_", "ETH", "_", "USDC">>
BTC_USDC_PERP == <<"BTC", "_", "USDC", "_", "PERP">>
ETH_USDC_PERP == <<"ETH", "_", "USDC", "_", "PERP">>
OrderlyItems ==
    { Item(PERP_BTC_USDC, <<RawNum(1)>>), Item(PERP_BTC_USDC, <<RawNaN>>),
      Item(PERP_BTC_USDC, <<RawJunk>>), Item(PERP_BTC_USDC, <<RawNone>>),
      Item(PERP_BTC_USDC, <<RawJunk, RawNum(2)>>),
      Item(PERP_ETH_USDC, <<RawNum(1)>>),
      Item(<<"PERP", "_">>, <<RawNum(1)>>), Item(None, <<RawNum(1)>>),
      NotADict }
HyperliquidItems ==
    { Item(<<"BTC">>, <<RawNum(1)>>), Item(<<"BTC">>, <<RawNum(2)>>),
      Item(<<"ETH">>, <<RawNum(2)>>) }
BackpackItems ==
    { Item(BTC_USDC_PERP, <<RawNum(1)>>), Item(BTC_USDC_PERP, <<RawNaN>>),
      Item(BTC_USDC_PERP, <<RawJunk>>), Item(BTC_USDC_PERP, <<RawNone>>),
      Item(ETH_USDC_PERP, <<RawNum(2)>>),
      Item(<<"_", "PERP">>, <<RawNum(1)>>), Item(None, <<RawNum(1)>>),
      NotADict }
OrderlyResponses == Failures \cup RowsOf(OrderlyItems)
HyperliquidResponses == {[kind |-> "exception", items |-> <<>>]} \cup RowsOf(HyperliquidItems)
BackpackResponses == Failures \cup RowsOf(BackpackItems)

RankInit ==
    /\ rpc = "add" /\ dex_rates = <<>> /\ added = 0
    /\ compiled_rates = EmptyFrame /\ df = EmptyFrame
    /\ option = 0 /\ shown = <<>>
    /\ FetchIdle
    /\ ExecInit /\ NormIdle /\ SessIdle

\* main.py 99-100: the next (dex_name, rates) of dex_rates_list is added; rates is
\* whatever that venue's fetcher returned (an empty dict when the fetch failed).
\* The fetchers have all returned by now: no response is at hand any more.
AddDexRates(rates) ==
    /\ rpc = "add"
    /\ added < Len(dex_rates_list)
    /\ dex_rates' = add_dex_rates(dex_rates, dex_rates_list[added + 1], rates)
    /\ added' = added + 1
    /\ rpc' = IF added + 1 = Len(dex_rates_list) THEN "compile" ELSE "add"
    /\ response' = NoResponse
    /\ UNCHANGED <<compiled_rates, df, option, shown, fetched, fetch_log, api_calls,
                   normVars, execVars, sessVars>>

\* main.py 103
CompileRates ==
    /\ rpc = "compile"
    /\ compiled_rates' = compile_rates(dex_rates)
    /\ dex_rates' = dex_rates_after_compile(dex_rates)
    /\ rpc' = "table"
    /\ UNCHANGED <<added, df, option, shown, fetchVars, normVars, execVars, sessVars>>

\* main.py 104
CreateRatesTable ==
    /\ rpc = "table"
    /\ df' = create_rates_table(compiled_rates)
    /\ rpc' = "display"
    /\ UNCHANGED <<dex_rates, added, compiled_rates, option, shown, fetchVars,
                   normVars, execVars, sessVars>>

\* main.py 106-107: option == 1
DisplayRatesTable ==
    /\ rpc = "display"
    /\ option' = 1
    /\ shown' = display_rates_table(df)
    /\ rpc' = "done"
    /\ UNCHANGED <<dex_rates, added, compiled_rates, df, fetchVars, normVars, execVars, sessVars>>

\* main.py 108-109: option == 2
DisplayTopFromOrderly ==
    /\ rpc = "display"
    /\ option' = 2
    /\ shown' \in display_top_rates_differences_from_Orderly(df, TopN)
    /\ rpc' = "done"
    /\ UNCHANGED <<dex_rates, added, compiled_rates, df, fetchVars, normVars, execVars, sessVars>>

\* main.py 110-111: any other option
DisplayTopFromAll ==
    /\ rpc = "display"
    /\ option' = 3
    /\ shown' \in display_top_rates_differences_from_all_DEXs(df, TopN)
    /\ rpc' = "done"
    /\ UNCHANGED <<dex_rates, added, compiled_rates, df, fetchVars, normVars, execVars, sessVars>>

RankNext ==
    \/ \E rates \in RateDicts : AddDexRates(rates)
    \/ CompileRates
    \/ CreateRatesTable
    \/ DisplayRatesTable
    \/ DisplayTopFromOrderly
    \/ DisplayTopFromAll

RankSpec == RankInit /\ [][RankNext]_vars

(***************************************************************************)
(* The same analysis over four markets, so that the top_n cut of the two    *)
(* rankings takes effect.  Each venue's fetcher returns its markets in the   *)
(* order the venue lists them, under the venue's own spelling.               *)
(***************************************************************************)

\* Largest funding rate Hyperliquid quotes in TopSpec (in units of 0.0001)
MaxTopRate == 3

\* The keys of the dict each fetcher returns, in order: Orderly's fetcher returns
\* underlyings (orderly/funding_rate.py 66), Hyperliquid names its coins bare,
\* Backpack's fetcher has cut "_PERP" off "BTC_USDC_PERP" (backpack 67-71).
Listing(dex) ==
    CASE dex = "orderly" -> << <<"BTC">>, <<"ETH">>, <<"SOL">>, <<"XRP">> >>
      [] dex = "hyperliquid" -> << <<"XRP">>, <<"SOL">>, <<"ETH">>, <<"BTC">> >>
      [] dex = "backpack" -> << <<"BTC", "_", "USDC">>, <<"ETH", "_", "USDC">> >>
\* The rates a venue quotes for a market it lists
Quotes(dex) ==
    IF dex = "hyperliquid" THEN {Num(n) : n \in 1..MaxTopRate} ELSE {Num(1)}
\* marks a market the venue returned no entry for
Unlisted == [nan |-> TRUE, v |-> -1]
\* The dicts a venue's fetcher can return: any part of its listing, in listing
\* order; the empty dict is a failed fetch.
ListedRates(dex) ==
    LET L == Listing(dex)
        listed(e) == e.v # Unlisted
    IN  {SelectSeq([i \in DOMAIN L |-> Entry(L[i], q[i])], listed) :
            q \in [DOMAIN L -> Quotes(dex) \cup {Unlisted}]}

TopNext ==
    \/ /\ added < Len(dex_rates_list)
       /\ \E rates \in ListedRates(dex_rates_list[added + 1]) : AddDexRates(rates)
    \/ CompileRates
    \/ CreateRatesTable
    \/ DisplayRatesTable
    \/ DisplayTopFromOrderly
    \/ DisplayTopFromAll

TopSpec == RankInit /\ [][TopNext]_vars

(***************************************************************************)
(* analyze_funding_rate_arbitrage from its first line: the three fetchers    *)
(* run in the order of dex_rates_list, each on the response its venue gives, *)
(* then the rates are added, compiled, tabled and displayed.                 *)
(***************************************************************************)

FetchInit ==
    /\ rpc = "fetch" /\ dex_rates = <<>> /\ added = 0
    /\ compiled_rates = EmptyFrame /\ df = EmptyFrame
    /\ option = 0 /\ shown = <<>>
    /\ FetchIdle
    /\ ExecInit /\ NormIdle /\ SessIdle

Fetched(dex_name, resp, rates, logged) ==
    /\ rpc = "fetch"
    /\ dex_rates_list[Len(fetched) + 1] = dex_name
    /\ response' = resp
    /\ fetched' = Append(fetched, Entry(dex_name, rates))
    /\ fetch_log' = fetch_log \o logged
    /\ rpc' = IF Len(fetched) + 1 = Len(dex_rates_list) THEN "add" ELSE "fetch"
    /\ UNCHANGED <<dex_rates, added, compiled_rates, df, option, shown, api_calls,
                   normVars, execVars, sessVars>>

\* main.py 79-81
FetchOrderly(resp) ==
    Fetched("orderly", resp, get_orderly_funding_rates(resp), orderly_logged(resp))
\* main.py 82-87
FetchHyperliquid(resp) ==
    Fetched("hyperliquid", resp, get_hyperliquid_funding_rates(resp), <<>>)
\* main.py 88-92
FetchBackpack(resp) ==
    Fetched("backpack", resp, get_backpack_funding_rates(resp), backpack_logged(resp))

\* main.py 99-100: for dex_name, rates in dex_rates_list
AddFetched ==
    /\ added < Len(fetched)
    /\ AddDexRates(fetched[added + 1].v)

FetchNext ==
    \/ \E resp \in OrderlyResponses : FetchOrderly(resp)
    \/ \E resp \in HyperliquidResponses : FetchHyperliquid(resp)
    \/ \E resp \in BackpackResponses : FetchBackpack(resp)
    \/ AddFetched
    \/ CompileRates
    \/ CreateRatesTable
    \/ DisplayRatesTable
    \/ DisplayTopFromOrderly
    \/ DisplayTopFromAll

FetchSpec == FetchInit /\ [][FetchNext]_vars

(***************************************************************************)
(* One FundingRateArbitrage object used through its two methods in any      *)
(* order: add_dex_rates(dex_name, rates) and compile_rates().                *)
(***************************************************************************)

\* Most calls made on the object
MaxCalls == 4

\* The dicts handed to add_dex_rates
ApiDicts ==
    { <<>>,
      <<Entry(<<"BTC">>, Num(1))>>,
      <<Entry(<<"BTC", "_", "USDC">>, Num(2)), Entry(<<"ETH">>, Num(1))>> }

ApiInit ==
    /\ rpc = "api" /\ dex_rates = <<>> /\ added = 0
    /\ compiled_rates = EmptyFrame /\ df = EmptyFrame
    /\ option = 0 /\ shown = <<>>
    /\ FetchIdle
    /\ ExecInit /\ NormIdle /\ SessIdle

ApiCall(op, dex_name, rates) == [op |-> op, k |-> dex_name, v |-> rates]

\* fr_arbitrage.add_dex_rates(dex_name, rates)
ApiAddDexRates(dex_name, rates) ==
    /\ rpc \in {"api", "built"}
    /\ Len(api_calls) < MaxCalls
    /\ dex_rates' = add_dex_rates(dex_rates, dex_name, rates)
    /\ api_calls' = Append(api_calls, ApiCall("add_dex_rates", dex_name, rates))
    /\ rpc' = "api"
    /\ UNCHANGED <<added, compiled_rates, df, option, shown, response, fetched,
                   fetch_log, normVars, execVars, sessVars>>

\* fr_arbitrage.compile_rates()
ApiCompileRates ==
    /\ rpc \in {"api", "built"}
    /\ Len(api_calls) < MaxCalls
    /\ compiled_rates' = compile_rates(dex_rates)
    /\ dex_rates' = dex_rates_after_compile(dex_rates)
    /\ api_calls' = Append(api_calls, ApiCall("compile_rates", "", <<>>))
    /\ rpc' = "built"
    /\ UNCHANGED <<added, df, option, shown, response, fetched, fetch_log,
                   normVars, execVars, sessVars>>

ApiNext ==
    \/ \E d \in DOMAIN dex_rates_list : \E rates \in ApiDicts :
           ApiAddDexRates(dex_rates_list[d], rates)
    \/ ApiCompileRates

ApiSpec == ApiInit /\ [][ApiNext]_vars

\* The venues whose accumulated rates hold a non-missing rate for the symbol
Reporters(sym) ==
    {i \in DOMAIN dex_rates :
        HasKey(dex_rates[i].v, sym) /\ ~Get(dex_rates[i].v, sym).nan}

\* C10: a symbol is in a displayed list (all-rates table, Orderly-anchored top-N,
\* global top-N) only if at least two venues report a non-missing rate for it.
C10_ShownHasTwoVenues ==
    \A i \in DOMAIN shown : Cardinality(Reporters(shown[i].Symbol)) >= 2
\* the all-rates table shows a symbol two venues report, next to symbols that
\* only one venue reports and that are left out
C10_TableShownWithSingleVenueSymbolLeftOut ==
    /\ rpc = "done" /\ option = 1 /\ shown # <<>>
    /\ \E j \in DOMAIN compiled_rates.rows :
           /\ non_na_count(compiled_rates.rows[j]) = 1
           /\ \A i \in DOMAIN shown : shown[i].Symbol # compiled_rates.rows[j].Symbol

\* The rates the venues report for a symbol, one per reporting venue
RateAt(i, sym) == Get(dex_rates[i].v, sym)
Ranked == rpc = "done" /\ option \in {2, 3}

\* C11 as stated: a symbol for which two venues report identical rates is in
\* neither ranking (Orderly-anchored or global top-N), whatever a third venue
\* reports: no ranked symbol has two venues with the same rate.
C11_NoRankedSymbolHasTwoEqualVenues ==
    Ranked => \A i \in DOMAIN shown :
                  \A a, b \in Reporters(shown[i].Symbol) :
                      a # b => RateAt(a, shown[i].Symbol) # RateAt(b, shown[i].Symbol)
\* C11, amended: a symbol is kept out of both rankings when all the venues that
\* report it report the same rate (Difference = 0); every ranked symbol has two
\* venues whose rates differ.
C11_RankedSymbolHasTwoDifferingVenues ==
    Ranked => \A i \in DOMAIN shown :
                  \E a, b \in Reporters(shown[i].Symbol) :
                      RateAt(a, shown[i].Symbol) # RateAt(b, shown[i].Symbol)
\* the global ranking has room left, and still leaves out a symbol of the table
\* whose venues all report the same rate
C11_EqualRatesSymbolLeftOut ==
    /\ rpc = "done" /\ option = 3
    /\ shown # <<>> /\ Len(shown) < TopN
    /\ \E j \in DOMAIN df.rows :
           /\ df.rows[j].Difference = Num(0)
           /\ \A i \in DOMAIN shown : shown[i].Symbol # df.rows[j].Symbol

\* The spread of a symbol, from the accumulated rates: the largest minus the
\* smallest rate among the venues that report it
Reported(sym) == {RateAt(i, sym).v : i \in Reporters(sym)}
Spread(sym) == SetMax(Reported(sym)) - SetMin(Reported(sym))
OrderlyReports(sym) == \E i \in Reporters(sym) : dex_rates[i].k = "orderly"
Descending(rows) ==
    \A i \in 1..(Len(rows) - 1) : Spread(rows[i].Symbol) >= Spread(rows[i + 1].Symbol)

\* C12: the Orderly-anchored ranking lists only symbols Orderly reports a rate
\* for (a symbol of hyperliquid and backpack alone is left out even with the
\* largest spread), holds at most TopN entries and is in descending spread order.
C12_AnchoredRankingNeedsOrderly ==
    (rpc = "done" /\ option = 2) =>
        /\ Len(shown) <= TopN
        /\ \A i \in DOMAIN shown : OrderlyReports(shown[i].Symbol)
        /\ Descending(shown)
\* a full anchored ranking that leaves out a symbol Orderly does not report and
\* whose spread is larger than every spread shown
C12_LargestSpreadWithoutOrderlyLeftOut ==
    /\ rpc = "done" /\ option = 2 /\ Len(shown) = TopN
    /\ \E j \in DOMAIN df.rows :
           /\ ~OrderlyReports(df.rows[j].Symbol)
           /\ \A i \in DOMAIN shown :
                  /\ shown[i].Symbol # df.rows[j].Symbol
                  /\ Spread(shown[i].Symbol) < Spread(df.rows[j].Symbol)

VenueReports(dex, sym) == \E i \in Reporters(sym) : dex_rates[i].k = dex
\* orderly {BTC: 0.0001}, hyperliquid {BTC: 0.0003}, nothing from backpack
\* (rates in units of 0.0001)
C13_Scenario ==
    LET contributed(e) == e.v # <<>>
    IN  /\ added = Len(dex_rates_list)
        /\ SelectSeq(dex_rates, contributed)
               = << Entry("orderly", <<Entry(<<"BTC">>, Num(1))>>),
                    Entry("hyperliquid", <<Entry(<<"BTC">>, Num(3))>>) >>
C13_ScenarioRow ==
    [Symbol |-> <<"BTC">>,
     rates |-> [c \in {"orderly", "hyperliquid"} |->
                   IF c = "orderly" THEN Num(1) ELSE Num(3)],
     MaxRate |-> Num(3), MinRate |-> Num(1), Difference |-> Num(2)]

\* C13: a venue that contributed no entry is missing from every row of the rate
\* table, never a zero: every cell holds the rate that venue reported for that
\* symbol, and is missing when it reported none.  With orderly {BTC: 1},
\* hyperliquid {BTC: 3} and a failed backpack fetch the table is the one BTC row
\* with the orderly and hyperliquid rates, Difference 2, MaxRate hyperliquid's
\* and MinRate orderly's, and the global ranking shows that row.
C13_FailedVenueIsMissingNotZero ==
    rpc \in {"display", "done"} =>
        /\ \A j \in DOMAIN df.rows : \A d \in DOMAIN dex_rates_list :
               LET dex == dex_rates_list[d]
                   row == df.rows[j]
               IN  IF VenueReports(dex, row.Symbol)
                   THEN /\ dex \in DOMAIN row.rates
                        /\ row.rates[dex] = Get(Get(dex_rates, dex), row.Symbol)
                   ELSE dex \in DOMAIN row.rates => row.rates[dex] = NaN
        /\ C13_Scenario =>
               /\ df = [columns |-> <<"orderly", "hyperliquid">>,
                        rows |-> <<C13_ScenarioRow>>]
               /\ (rpc = "done" /\ option = 3) => shown = <<C13_ScenarioRow>>
\* the scenario, ranked globally
C13_ScenarioRanked == C13_Scenario /\ rpc = "done" /\ option = 3 /\ shown # <<>>

\* The position of a symbol in the rate table (its insertion order)
Pos(sym) == CHOOSE j \in DOMAIN df.rows : df.rows[j].Symbol = sym
InRanking(row) == IF option = 2 THEN OrderlyMask(row) ELSE AllDexMask(row)

\* C14: both rankings break ties by insertion order: of two ranked symbols with
\* equal spread the one earlier in the rate table comes first, and when a tie
\* straddles the top_n cut the earlier ones are the ones kept, so that the same
\* table always gives the same sequence.
C14_TiesKeepInsertionOrder ==
    Ranked =>
        /\ \A i, j \in DOMAIN shown :
               (i < j /\ shown[i].Difference = shown[j].Difference)
                   => Pos(shown[i].Symbol) < Pos(shown[j].Symbol)
        /\ \A i \in DOMAIN shown : \A k \in DOMAIN df.rows :
               ( /\ InRanking(df.rows[k])
                 /\ df.rows[k].Difference = shown[i].Difference
                 /\ \A j \in DOMAIN shown : shown[j].Symbol # df.rows[k].Symbol )
                   => Pos(shown[i].Symbol) < k

Compiled == rpc \in {"table", "display", "done"}

\* C15: an entry whose symbol normalises to nothing or whose rate is not a
\* finite number is dropped when its venue's rates are added and leaves no trace
\* in the built rate table: every row of the table and every venue column holds
\* at least one finite rate, and no row has an empty symbol.
C15_TableHoldsOnlyValidEntries ==
    Compiled =>
        /\ \A j \in DOMAIN compiled_rates.rows :
               /\ ~Falsy(compiled_rates.rows[j].Symbol)
               /\ non_na_count(compiled_rates.rows[j]) >= 1
        /\ \A c \in Seq2Set(compiled_rates.columns) :
               \E j \in DOMAIN compiled_rates.rows : ~compiled_rates.rows[j].rates[c].nan

\* self.dex_rates as the add_dex_rates calls of a call sequence alone leave it
RECURSIVE AddsOnly(_, _)
AddsOnly(callseq, dr) ==
    IF callseq = <<>> THEN dr
    ELSE AddsOnly(Tail(callseq),
                  IF Head(callseq).op = "add_dex_rates"
                  THEN add_dex_rates(dr, Head(callseq).k, Head(callseq).v)
                  ELSE dr)

\* C16: compile_rates is pure.  A call leaves the accumulated rates as they
\* were; a call straight after another returns an equal table; and the table a
\* call returns is the table of the add_dex_rates calls made so far, whatever
\* builds happened in between.
C16_CompileRatesIsPure ==
    /\ [][rpc' = "built" => dex_rates' = dex_rates]_vars
    /\ [][(rpc = "built" /\ rpc' = "built") => compiled_rates' = compiled_rates]_vars
    /\ [](rpc = "built" => compiled_rates = compile_rates(AddsOnly(api_calls, <<>>)))
\* a table built after an add_dex_rates call that followed an earlier build
C16_BuiltAgainAfterLaterAdd ==
    /\ rpc = "built" /\ Len(api_calls) = 4
    /\ api_calls[1].op = "add_dex_rates" /\ api_calls[2].op = "compile_rates"
    /\ api_calls[3].op = "add_dex_rates" /\ api_calls[3].k # api_calls[1].k
    /\ api_calls[3].v # <<>> /\ api_calls[1].v # <<>>
    /\ Len(compiled_rates.columns) = 2

\* The symbols some venue's accumulated rates hold
Symbols == UNION {{dex_rates[i].v[j].k : j \in DOMAIN dex_rates[i].v} : i \in DOMAIN dex_rates}
Covered == {sym \in Symbols : Cardinality(Reporters(sym)) >= 2}
Eligible == {sym \in Covered : Spread(sym) # 0}
ShownSymbols == {shown[i].Symbol : i \in DOMAIN shown}
\* the position of a symbol in the compiled table
TablePos(sym) ==
    CHOOSE j \in DOMAIN compiled_rates.rows : compiled_rates.rows[j].Symbol = sym
AllMode == rpc = "done" /\ option = 1

\* C17 as stated: the all-rates view lists exactly the eligible symbols (two
\* reporting venues and a non-zero spread), all of them, by descending spread.
C17_AllModeListsEligibleDescending ==
    AllMode => /\ ShownSymbols = Eligible
               /\ Len(shown) = Cardinality(Eligible)
               /\ Descending(shown)
\* C17, amended: the all-rates view lists every symbol that at least two venues
\* report, zero spreads included, each once and none cut, in the order of the
\* rate table.
C17_AllModeListsCoveredInTableOrder ==
    AllMode => /\ ShownSymbols = Covered
               /\ Len(shown) = Cardinality(Covered)
               /\ \A i, j \in DOMAIN shown :
                      i < j => TablePos(shown[i].Symbol) < TablePos(shown[j].Symbol)
\* the view lists more than top_n symbols, a zero-spread one among them, and
\* not by descending spread
C17_WholeTableShownUnsorted ==
    /\ AllMode /\ Len(shown) > TopN
    /\ \E i \in DOMAIN shown : Spread(shown[i].Symbol) = 0
    /\ ~Descending(shown)

\* C18: the global ranking is the first TopN entries of the descending ranking
\* of all eligible symbols: it holds min(TopN, number of eligible symbols)
\* distinct eligible symbols by descending spread, and no eligible symbol left
\* out has a larger spread than one that is shown.
C18_GlobalTopNIsHeadOfRanking ==
    (rpc = "done" /\ option = 3) =>
        /\ Len(shown) = (IF Cardinality(Eligible) < TopN
                         THEN Cardinality(Eligible) ELSE TopN)
        /\ ShownSymbols \subseteq Eligible
        /\ Cardinality(ShownSymbols) = Len(shown)
        /\ Descending(shown)
        /\ \A sym \in Eligible \ ShownSymbols : \A i \in DOMAIN shown :
               Spread(sym) <= Spread(shown[i].Symbol)
\* four eligible symbols: three are shown, and the one cut has a smaller spread
\* than the first shown
C18_FourthEligibleSymbolCut ==
    /\ rpc = "done" /\ option = 3
    /\ Cardinality(Eligible) > TopN /\ Len(shown) = TopN
    /\ \E sym \in Eligible \ ShownSymbols : Spread(sym) < Spread(shown[1].Symbol)

\* The venue whose fetcher ran last, and the dict it returned
LastVenue == fetched[Len(fetched)].k
LastRates == fetched[Len(fetched)].v
\* An item the venue's fetcher can read a symbol and a rate from, and the key it
\* files the rate under
Parsable(raw_rate) == raw_rate.kind \in {"number", "nan"}
Readable(dex, item) ==
    /\ item.isdict /\ item.symbol # None
    /\ IF dex = "orderly"
       THEN /\ OrderlyFundingRates_normalize_symbol(strip(item.symbol, {" "})) # None
            /\ \E k \in DOMAIN item.rates : Parsable(item.rates[k])
       ELSE Parsable(item.rates[1])
KeyOf(dex, item) ==
    CASE dex = "orderly" -> OrderlyFundingRates_normalize_symbol(strip(item.symbol, {" "}))
      [] dex = "backpack" -> remove_all(item.symbol, <<"_", "PERP">>)
      [] OTHER -> item.symbol

\* C19: a fetch that fails (no connection or timeout, error status, undecodable
\* or unexpected payload) returns the empty dict, a list with malformed items
\* returns an entry for every readable item and none for the others, and
\* whatever the earlier fetches ended in, all three venues have been fetched
\* when the rates are added and ranked.
C19_FetchFailureIsIsolated ==
    /\ response # NoResponse =>
           IF response.kind # "rows" THEN LastRates = <<>>
           ELSE /\ \A i \in DOMAIN response.items :
                       Readable(LastVenue, response.items[i])
                           => HasKey(LastRates, KeyOf(LastVenue, response.items[i]))
                /\ \A j \in DOMAIN LastRates : \E i \in DOMAIN response.items :
                       /\ Readable(LastVenue, response.items[i])
                       /\ KeyOf(LastVenue, response.items[i]) = LastRates[j].k
    /\ rpc # "fetch" => /\ Len(fetched) = Len(dex_rates_list)
                        /\ \A d \in DOMAIN fetched : fetched[d].k = dex_rates_list[d]
\* Backpack's fetch failed and was logged, and the ranking of the other two
\* venues' rates is shown
C19_RankedWithoutBackpack ==
    /\ rpc = "done" /\ option = 3 /\ shown # <<>>
    /\ fetch_log # <<>>
    /\ fetched[3].v = <<>> /\ fetched[1].v # <<>> /\ fetched[2].v # <<>>

\* C20: in every row of the rate table MaxRate and MinRate are the largest and
\* the smallest rate among the venues that report a rate for the symbol (a venue
\* without one counts for nothing, and MaxRate does not enter MinRate), and
\* Difference is MaxRate - MinRate and not negative.
C20_ExtremaOverReportingVenues ==
    rpc \in {"display", "done"} =>
        \A j \in DOMAIN df.rows :
            LET row == df.rows[j]
                rates == Reported(row.Symbol)
            IN  /\ rates # {}
                /\ row.MaxRate = Num(SetMax(rates))
                /\ row.MinRate = Num(SetMin(rates))
                /\ row.Difference = Num(SetMax(rates) - SetMin(rates))
                /\ row.Difference.v >= 0
\* a row with a venue column that holds no rate for the symbol, and a MinRate
\* above zero
C20_RowWithMissingVenue ==
    /\ rpc = "display"
    /\ \E j \in DOMAIN df.rows :
           /\ \E c \in DOMAIN df.rows[j].rates : df.rows[j].rates[c].nan
           /\ df.rows[j].MinRate.v > 0
           /\ df.rows[j].Difference.v > 0

(***************************************************************************)
(* Start-up: main.py 14-16 (module level) and 253-304 (__main__), for every *)
(* environment the process can be started in.                               *)
(***************************************************************************)

\* Largest value of RUN_MAINNET enumerated
MaxMode == 2

\* The variables other than RUN_MAINNET that start-up reads with os.getenv
EnvNames ==
    {"ORDERLY_BASE_URL_MAINNET", "ORDERLY_BASE_URL_TESTNET",
     "ORDERLY_CHAIN_ID_MAINNET", "ORDERLY_CHAIN_ID_TESTNET",
     "ORDERLY_SECRET_MAINNET", "ORDERLY_SECRET_TESTNET"}
Envs ==
    [RUN_MAINNET : {Unset} \cup {[set |-> TRUE, value |-> n] : n \in 0..MaxMode},
     names : SUBSET EnvNames]

\* os.getenv(name, default): the value of a variable that is set is written "$name"
getenv(e, name, default) == IF name \in e.names THEN "$" \o name ELSE default

\* main.py 15: RUN_MAINNET = int(os.getenv("RUN_MAINNET", "0"))
RUN_MAINNET(e) == IF e.RUN_MAINNET.set THEN e.RUN_MAINNET.value ELSE 0
\* main.py 16: IS_MAINNET = RUN_MAINNET == 0
is_mainnet(e) == RUN_MAINNET(e) = 0

\* the module has been imported: lines 15-16 have run
StartInit ==
    /\ env \in Envs
    /\ IS_MAINNET = is_mainnet(env)
    /\ spc = "start"
    /\ orderly_base_url = "" /\ orderly_chain_id = "" /\ orderly_secret_env = ""
    /\ hl_base_url = "" /\ start_printed = <<>>
    /\ ExecInit /\ NormIdle /\ RankIdle /\ CloseIdle /\ PathIdle

\* main.py 255-259
Warn ==
    /\ spc = "start"
    /\ start_printed' = Append(start_printed,
           "Warning: this script is currently configured to use ONLY testnet environments.")
    /\ spc' = "orderly"
    /\ UNCHANGED <<env, IS_MAINNET, orderly_base_url, orderly_chain_id,
                   orderly_secret_env, hl_base_url, normVars, rankVars, execVars, closeVars, pathVars>>

\* main.py 269-295: the Orderly client; a missing secret raises RuntimeError
ConfigureOrderly ==
    LET secret_env == IF IS_MAINNET THEN "ORDERLY_SECRET_MAINNET"
                      ELSE "ORDERLY_SECRET_TESTNET"
    IN  /\ spc = "orderly"
        /\ orderly_base_url' =
               IF IS_MAINNET
               THEN getenv(env, "ORDERLY_BASE_URL_MAINNET", "https://api.orderly.org")
               ELSE getenv(env, "ORDERLY_BASE_URL_TESTNET",
                           "https://testnet-api-evm.orderly.org")
        /\ orderly_chain_id' =
               IF IS_MAINNET THEN getenv(env, "ORDERLY_CHAIN_ID_MAINNET", "42161")
               ELSE getenv(env, "ORDERLY_CHAIN_ID_TESTNET", "421614")
        /\ orderly_secret_env' = secret_env
        /\ IF secret_env \in env.names
           THEN /\ spc' = "hyperliquid"
                /\ start_printed' = Append(start_printed,
                       IF IS_MAINNET THEN "Connected to Orderly (mainnet)"
                       ELSE "Connected to Orderly (testnet)")
           ELSE /\ spc' = "crashed"
                /\ UNCHANGED start_printed
        /\ UNCHANGED <<env, IS_MAINNET, hl_base_url, normVars, rankVars, execVars, closeVars, pathVars>>

\* main.py 299-304: the Hyperliquid client; then the main loop starts
ConfigureHyperliquid ==
    /\ spc = "hyperliquid"
    /\ hl_base_url' = IF IS_MAINNET THEN "constants.MAINNET_API_URL"
                      ELSE "constants.TESTNET_API_URL"
    /\ start_printed' = Append(start_printed,
           IF IS_MAINNET THEN "Connected to Hyperliquid (mainnet)"
           ELSE "Connected to Hyperliquid (testnet)")
    /\ spc' = "menu"
    /\ UNCHANGED <<env, IS_MAINNET, orderly_base_url, orderly_chain_id,
                   orderly_secret_env, normVars, rankVars, execVars, closeVars, pathVars>>

StartNext == Warn \/ ConfigureOrderly \/ ConfigureHyperliquid

StartSpec == StartInit /\ [][StartNext]_vars

OrderlyConfigured == spc \in {"hyperliquid", "crashed", "menu"}
OrderlyOnTestnet ==
    /\ orderly_base_url \in {"https://testnet-api-evm.orderly.org",
                             "$ORDERLY_BASE_URL_TESTNET"}
    /\ orderly_chain_id \in {"421614", "$ORDERLY_CHAIN_ID_TESTNET"}
    /\ orderly_secret_env = "ORDERLY_SECRET_TESTNET"
HyperliquidOnTestnet == hl_base_url = "constants.TESTNET_API_URL"

\* C21: with RUN_MAINNET unset or 0 the Orderly client (base URL, chain id,
\* secret) and the Hyperliquid client are configured for testnet, as the
\* start-up warning says, and a mainnet configuration is chosen only when
\* RUN_MAINNET is 1.
C21_TestnetUnlessRunMainnetIsOne ==
    /\ OrderlyConfigured =>
           /\ RUN_MAINNET(env) = 0 => OrderlyOnTestnet
           /\ ~OrderlyOnTestnet => RUN_MAINNET(env) = 1
    /\ spc = "menu" =>
           /\ RUN_MAINNET(env) = 0 => HyperliquidOnTestnet
           /\ ~HyperliquidOnTestnet => RUN_MAINNET(env) = 1

(***************************************************************************)
(* Closing a position: main.py 114-130 and 373-400,                        *)
(* orderly/order.py 98-135, hyperliq/order.py 151-191.                     *)
(***************************************************************************)

\* Close-positions menu passes per behaviour
MaxCloses == 2
\* Largest position size (either direction) a venue reports
MaxPos == 2
\* symbol_info["markPx"] of the listed asset
markPx == 2

abs(n) == IF n < 0 THEN 0 - n ELSE n

\* What the venue answers when asked for the position in the symbol: Orderly's
\* GET /v1/position/{symbol} (data.position_qty), Hyperliquid's user_state
\* (assetPositions, szi).  qty 0 is no position held; on Hyperliquid that is
\* no entry for the coin in assetPositions.
Positions ==
    {[answer |-> "ok", qty |-> q] : q \in (0 - MaxPos)..MaxPos}
        \cup {[answer |-> a, qty |-> 0] : a \in {"no_data", "transport_error"}}

CloseCall(dex, sym, quantity, side) ==
    [dex |-> dex, symbol |-> sym, quantity |-> quantity, side |-> side]

\* orderly/order.py: Order.market_close_an_asset with Order.get_position.
\* value.type "none" is Python's None (the function falls off its end).
Order_market_close_an_asset(sym, pos, ans) ==
    LET side == IF pos.qty < 0 THEN "BUY" ELSE "SELL"
        r == Order_create_market_order(sym, abs(pos.qty), side, ans)
        asked == <<Req("orderly", "position")>>
    IN  \* _send_request raises, or position_data["data"] is a KeyError
        IF pos.answer # "ok"
        THEN [raised |-> TRUE, value |-> [type |-> "none", success |-> FALSE],
              venue |-> "none", requests |-> asked, printed |-> <<>>, calls |-> <<>>]
        ELSE IF pos.qty # 0
        THEN [raised |-> r.raised, value |-> r.value, venue |-> r.venue,
              requests |-> asked \o r.requests, printed |-> r.printed,
              calls |-> <<CloseCall("orderly", sym, abs(pos.qty), side)>>]
        ELSE [raised |-> FALSE, value |-> [type |-> "none", success |-> FALSE],
              venue |-> "none", requests |-> asked,
              printed |-> <<Line("No position held in this symbol", "orderly")>>,
              calls |-> <<>>]

\* hyperliq/order.py: HyperLiquidOrder.market_close_an_asset.  value is the
\* returned bool; what create_market_order returns is dropped (line 187).
HyperLiquidOrder_market_close_an_asset(sym, pos, ans) ==
    LET side == IF pos.qty > 0 THEN "SELL" ELSE "BUY"
        sz_usd == abs(pos.qty) * markPx
        r == HyperLiquidOrder_create_market_order(sym, sz_usd, side, ans)
        state_req == <<Req("hyperliquid", "user_state")>>
        asked == state_req \o <<Req("hyperliquid", "meta")>>
        raise(reqs) == [raised |-> TRUE, value |-> "none", venue |-> "none",
                        requests |-> reqs, printed |-> <<>>, calls |-> <<>>]
    IN  \* info.user_state raises, or user_state["assetPositions"] is a KeyError
        IF pos.answer # "ok" THEN raise(state_req)
        ELSE IF ans.meta = "transport_error" THEN raise(asked)
        \* ValueError: symbol not found in the Hyperliquid universe
        ELSE IF sym \notin universe THEN raise(asked)
        ELSE IF pos.qty # 0
        THEN [raised |-> r.raised,
              value |-> IF r.raised THEN "none" ELSE "True",
              venue |-> r.venue, requests |-> asked \o r.requests,
              printed |-> <<Line("Closing position on Hyperliquid", "hyperliquid")>>
                              \o r.printed,
              calls |-> <<CloseCall("hyperliquid", sym, sz_usd, side)>>]
        ELSE [raised |-> FALSE, value |-> "False", venue |-> "none",
              requests |-> asked,
              printed |-> <<Line("No open position on Hyperliquid", "hyperliquid")>>,
              calls |-> <<>>]

\* main.py: market_close_an_asset.  ret is "True", "False" or "raised".
market_close_an_asset(dex, sym, pos, ans) ==
    IF dex = "orderly" THEN
        LET r == Order_market_close_an_asset(sym, pos, ans)
        IN  IF r.raised
            THEN [ret |-> "raised", venue |-> r.venue, requests |-> r.requests,
                  printed |-> r.printed, calls |-> r.calls]
            \* response.get("success") on None: AttributeError
            ELSE IF r.value.type = "none"
            THEN [ret |-> "raised", venue |-> r.venue, requests |-> r.requests,
                  printed |-> r.printed, calls |-> r.calls]
            ELSE [ret |-> IF r.value.success THEN "True" ELSE "False",
                  venue |-> r.venue, requests |-> r.requests,
                  printed |-> r.printed \o
                      (IF r.value.success THEN <<>>
                       ELSE <<Line("response.get('message')", "orderly")>>),
                  calls |-> r.calls]
    ELSE IF dex = "hyperliquid" THEN
        LET r == HyperLiquidOrder_market_close_an_asset(sym, pos, ans)
        IN  [ret |-> IF r.raised THEN "raised" ELSE r.value,
             venue |-> r.venue, requests |-> r.requests, printed |-> r.printed,
             calls |-> r.calls]
    ELSE [ret |-> "False", venue |-> "none", requests |-> <<>>,
          printed |-> <<Line("Unsupported DEX", dex)>>, calls |-> <<>>]

\* the main loop is at its menu; nothing has been closed yet
CloseInit ==
    /\ cpc = "menu" /\ close_on_dex = NoDex /\ close_symbol = ""
    /\ position = NoPosition /\ close_ans = NoAnswer
    /\ close_calls = <<>> /\ close_requests = <<>> /\ close_venue = "none"
    /\ close_success = "none" /\ close_printed = <<>> /\ closes = 0
    /\ ExecInit /\ NormIdle /\ RankIdle /\ StartIdle /\ PathIdle

\* main.py 373-383: menu choice 3 up to the call of market_close_an_asset
ClosePositions(dex_choice, typed) ==
    LET dex == get_dex_from_dex_options(dex_choice)
    IN  /\ cpc = "menu"
        /\ closes < MaxCloses
        /\ closes' = closes + 1
        /\ position' = NoPosition /\ close_ans' = NoAnswer
        /\ close_calls' = <<>> /\ close_requests' = <<>> /\ close_venue' = "none"
        /\ close_success' = "none"
        /\ close_on_dex' = dex
        /\ IF dex = NoDex
           THEN /\ close_symbol' = ""
                /\ close_printed' = <<Line("Invalid choice, aborting!", "")>>
                /\ cpc' = "menu"
           ELSE /\ close_symbol' = UpperTok(typed)
                /\ close_printed' = <<>>
                /\ cpc' = "closing"
        /\ UNCHANGED <<normVars, rankVars, execVars, startVars, pathVars>>

\* main.py 385-396: market_close_an_asset returns (or raises) and the outcome
\* is printed
MarketClose(pos, ans) ==
    LET r == market_close_an_asset(close_on_dex, close_symbol, pos, ans)
    IN  /\ cpc = "closing"
        /\ position' = pos /\ close_ans' = ans
        /\ close_calls' = r.calls
        /\ close_requests' = r.requests
        /\ close_venue' = r.venue
        /\ close_success' = r.ret
        /\ close_printed' = close_printed \o r.printed \o
               (IF r.ret = "True" THEN <<Line("has been closed on", close_on_dex)>>
                ELSE IF r.ret = "False"
                THEN <<Line("Error closing position. Manual intervention may be required.",
                            close_on_dex)>>
                ELSE <<>>)
        /\ cpc' = IF r.ret = "raised" THEN "crashed" ELSE "back"
        /\ UNCHANGED <<close_on_dex, close_symbol, closes,
                       normVars, rankVars, execVars, startVars, pathVars>>

\* main.py 398-400: "Back to Main Menu"
BackFromClose ==
    /\ cpc = "back"
    /\ cpc' = "menu"
    /\ UNCHANGED <<close_on_dex, close_symbol, position, close_ans, close_calls, close_requests,
                   close_venue, close_success, close_printed, closes,
                   normVars, rankVars, execVars, startVars, pathVars>>

CloseNext ==
    \/ \E dex_choice \in Choices, typed \in TypedSymbols :
           ClosePositions(dex_choice, typed)
    \/ \E pos \in Positions, ans \in Answers(close_on_dex) : MarketClose(pos, ans)
    \/ BackFromClose

CloseSpec == CloseInit /\ [][CloseNext]_vars

\* market_close_an_asset is over, by return or by exception
CloseOver == cpc \in {"back", "crashed"}
\* the size, in contracts, of the order a close placed (hyperliq/order.py 62)
ClosedSize(c) == IF c.dex = "hyperliquid" THEN c.quantity \div markPx ELSE c.quantity
OppositeSide(q) == IF q > 0 THEN "SELL" ELSE "BUY"
\* the venue answers, knows the symbol and reports no position in it
NoPositionHeld ==
    /\ position.answer = "ok" /\ position.qty = 0
    /\ close_on_dex = "hyperliquid" =>
           close_symbol \in universe /\ close_ans.meta = "ok"

\* C22: market_close_an_asset returns true only when a closing market order
\* (opposite side, absolute position size) was placed and accepted by the venue,
\* and returns false, without raising, when no position is held in the symbol
\* or when the venue rejects the closing order.
C22_CloseReturnsSuccessBoolean ==
    CloseOver =>
        /\ close_success = "True" =>
               /\ close_venue = "accepted"
               /\ Len(close_calls) = 1
               /\ close_calls[1].side = OppositeSide(position.qty)
               /\ ClosedSize(close_calls[1]) = abs(position.qty)
        /\ NoPositionHeld => close_success = "False"
        /\ close_venue = "declined" => close_success = "False"

\* the answer picks an entry of the menu it was given
ValidShortAnswer == answered.short_choice \in 1..Len(dex_options)
ValidLongAnswer ==
    answered.long_choice \in 1..Len(remaining_dex(dex_options[answered.short_choice]))
OrdersPlaced == calls # <<>>

\* C23: no order is placed on any venue unless the operator chose a valid
\* short venue, a valid long venue different from the short venue, entered a
\* numeric quantity and answered the confirmation with Yes; an invalid answer
\* at any prompt aborts with no order call, and the two legs never name the
\* same venue.
C23_NoOrderWithoutValidAnswers ==
    /\ OrdersPlaced =>
           /\ answered.prompts = 4
           /\ ValidShortAnswer
           /\ ValidLongAnswer
           /\ answered.qty.valid
           /\ answered.confirm_choice = 1
           /\ short_on_dex # long_on_dex
    /\ (answered.prompts >= 1 /\ ~ValidShortAnswer) => (pc = "menu" /\ calls = <<>>)
    /\ pc # "menu" => short_on_dex # long_on_dex

(***************************************************************************)
(* The row key of a symbol, by the path it takes into the table (PathSpec): *)
(* a venue reports one rate under the raw symbol, the venue's fetcher       *)
(* builds its dict and add_dex_rates files it (main.py 78-100).             *)
(***************************************************************************)

\* a response listing one rate, under the symbol sym
OneRate(sym) == [kind |-> "rows", items |-> <<Item(sym, <<RawNum(1)>>)>>]

\* the key a venue's rates are filed under in an aggregator that holds nothing
\* else; None when nothing is filed
FiledUnder(dex_name, rates) ==
    LET dr == add_dex_rates(<<>>, dex_name, rates)
    IN  IF dr = <<>> THEN None ELSE dr[1].v[1].k

\* one symbol, raw as a venue spells it
PathInit ==
    /\ raw_symbol \in RawSymbols
    /\ kpc = "raw"
    /\ row_key = [p \in Paths |-> None]
    /\ ExecInit /\ NormIdle /\ RankIdle /\ StartIdle /\ CloseIdle

\* get_orderly_funding_rates, then add_dex_rates
OrderlyPath ==
    /\ kpc = "raw"
    /\ row_key' = [row_key EXCEPT !["orderly"] =
                       FiledUnder("orderly", get_orderly_funding_rates(OneRate(raw_symbol)))]
    /\ kpc' = "orderly"
    /\ UNCHANGED <<raw_symbol, normVars, rankVars, execVars, startVars, closeVars>>

\* get_hyperliquid_funding_rates, which hands the venue's symbol over as it
\* is, then add_dex_rates
DirectPath ==
    /\ kpc = "orderly"
    /\ row_key' = [row_key EXCEPT !["direct"] =
                       FiledUnder("hyperliquid",
                                  get_hyperliquid_funding_rates(OneRate(raw_symbol)))]
    /\ kpc' = "direct"
    /\ UNCHANGED <<raw_symbol, normVars, rankVars, execVars, startVars, closeVars>>

\* get_backpack_funding_rates, then add_dex_rates
BackpackPath ==
    /\ kpc = "direct"
    /\ row_key' = [row_key EXCEPT !["backpack"] =
                       FiledUnder("backpack", get_backpack_funding_rates(OneRate(raw_symbol)))]
    /\ kpc' = "done"
    /\ UNCHANGED <<raw_symbol, normVars, rankVars, execVars, startVars, closeVars>>

PathNext == OrderlyPath \/ DirectPath \/ BackpackPath

PathSpec == PathInit /\ [][PathNext]_vars

\* C24: the row key of a symbol does not depend on the venue path it arrives
\* through: for every raw symbol, the Orderly path (the fetcher's normalisation,
\* then the aggregator's), the Backpack path (removal of _PERP, then the
\* aggregator's) and the direct path (the aggregator's only) give the same key.
C24_RowKeyIndependentOfPath ==
    kpc = "done" =>
        /\ row_key["orderly"] = row_key["direct"]
        /\ row_key["backpack"] = row_key["direct"]

====
